---- MODULE Spec2Model ----
(***************************************************************************)
(* A model of hmm.py: the state and hmm classes, hmm.score, hmm.enumerate, *)
(* hmm.trellis, hmm.viterbi_path and train_hmm.                            *)
(*                                                                         *)
(* A probability n/d is written <<n, d>>.  The probabilities given to a    *)
(* hand-built model are 0.0, 0.01, 0.1 and 1.0, so that math.log10 of every*)
(* positive one is an integer and sums of logarithms are exact.            *)
(* A Python dictionary is a function whose DOMAIN is its set of keys.      *)
(***************************************************************************)
EXTENDS Integers, Sequences, FiniteSets, TLC

VARIABLES
    hmm,                    \* the hmm object (self)
    observed,               \* the observation sequence handed to a method
    training_data,          \* train_hmm's list of (symbols, states) samples
    include_terminal_state, \* train_hmm's flag
    pc,                     \* "ready", or the name of the call that was made
    arg,                    \* score's seq_state / the key order of the dicts
    ret                     \* what the call returned or raised

vars == <<hmm, observed, training_data, include_terminal_state, pc, arg, ret>>

----------------------------------------------------------------------------
(* Bounds and input domains *)

MaxLen == 3
MaxSamples == 2
MaxSampleLen == 2

StateNames == {"A", "B"}
Alphabet == {"x"}
PInitial == {<<0, 1>>, <<1, 10>>, <<1, 1>>}
PEmission == {<<0, 1>>, <<1, 1>>}
PTransition == {<<0, 1>>, <<1, 100>>, <<1, 1>>}
PTermination == {<<0, 1>>, <<1, 10>>}
TrainSymbols == {"x"}
TrainStates == {"A", "B", "C"}

----------------------------------------------------------------------------
(* Python values *)

\* Python's None where a float is expected.  Python 2 orders None below
\* every number; every log-probability of the model is far above this.
None == -1000

\* best_seq = None in enumerate
NoneSeq == <<>>

Return(v) == [status |-> "return", exc |-> "", value |-> v]
Raise(e, v) == [status |-> "raise", exc |-> e, value |-> v]

\* the float 0.0, and the tests p == 0.0 and p > 0.0 of a probability
Zero == <<0, 1>>
IsZero(p) == p[1] = 0
Positive(p) == p[1] > 0

\* math.log10 of 1.0, 0.1 and 0.01; math.log10(0.0) raises ValueError, which
\* callers model before they use Log10.
Log10(p) ==
    CASE p = <<1, 1>> -> 0 [] p = <<1, 10>> -> -1 [] p = <<1, 100>> -> -2

Last(s) == s[Len(s)]

RECURSIVE Reverse(_)
Reverse(s) == IF s = <<>> THEN <<>> ELSE Append(Reverse(Tail(s)), Head(s))

RECURSIVE Pow(_, _)
Pow(b, n) == IF n = 0 THEN 1 ELSE b * Pow(b, n - 1)

Dicts(K, V) == UNION {[S -> V] : S \in SUBSET K}

\* the orders in which a dict with these keys may iterate
KeyOrders(K) ==
    {o \in [1..Cardinality(K) -> K] : \A k \in K : \E i \in DOMAIN o : o[i] = k}

----------------------------------------------------------------------------
(* class state *)

state_init(name, p_initial, p_emission, p_transition, p_termination) ==
    [name |-> name, p_initial |-> p_initial, p_emission |-> p_emission,
     p_transition |-> p_transition, p_termination |-> p_termination]

(* class hmm *)

hmm_init(alphabet, states) ==
    [alphabet |-> alphabet,
     terminal_state |-> \E n \in DOMAIN states : Positive(states[n].p_termination),
     initial_states |-> {n \in DOMAIN states : Positive(states[n].p_initial)},
     terminating_states |-> {n \in DOMAIN states : Positive(states[n].p_termination)},
     states |-> states]

RECURSIVE score_loop(_, _, _, _, _)
score_loop(self, seq_state, seq_observed, i, p) ==
    IF i > Len(seq_state) THEN Return(p)
    ELSE
      LET state_cur == self.states[seq_state[i]]
          state_prev == self.states[seq_state[i - 1]]
          sym == seq_observed[i]
          step(q) ==
              IF sym \notin DOMAIN state_cur.p_emission THEN Return(None)
              ELSE IF IsZero(state_cur.p_emission[sym]) THEN Return(None)
              ELSE score_loop(self, seq_state, seq_observed, i + 1,
                              q + Log10(state_cur.p_emission[sym]))
      IN  IF i = 1
          THEN IF IsZero(state_cur.p_initial) THEN Return(None)
               ELSE step(p + Log10(state_cur.p_initial))
          ELSE IF seq_state[i] \notin DOMAIN state_prev.p_transition
               THEN Return(None)
               ELSE IF IsZero(state_prev.p_transition[seq_state[i]])
               THEN Raise("ValueError", None)
               ELSE step(p + Log10(state_prev.p_transition[seq_state[i]]))

\* score with log10(p_termination) of the last state added to the result
score_adds_termination(self, seq_state, seq_observed) ==
    IF self.terminal_state /\ Last(seq_state) \notin self.terminating_states
    THEN Return(None)
    ELSE LET r == score_loop(self, seq_state, seq_observed, 1, 0)
         IN  IF self.terminal_state /\ r.status = "return" /\ r.value # None
             THEN Return(r.value
                         + Log10(self.states[Last(seq_state)].p_termination))
             ELSE r

score(self, seq_state, seq_observed) ==
    IF self.terminal_state /\ Last(seq_state) \notin self.terminating_states
    THEN Return(None)
    ELSE score_loop(self, seq_state, seq_observed, 1, 0)

\* itertools.product(keys, repeat=n): the last position varies fastest
product(keys, n) ==
    [j \in 1..Pow(Len(keys), n) |->
        [i \in 1..n |-> keys[(((j - 1) \div Pow(Len(keys), n - i)) % Len(keys)) + 1]]]

RECURSIVE enumerate_loop(_, _, _, _, _)
enumerate_loop(self, obs, seqs, best_seq, best_score) ==
    IF seqs = <<>> THEN Return([best_seq |-> best_seq, best_score |-> best_score])
    ELSE
      LET s == score(self, Head(seqs), obs)
      IN  IF s.status = "raise" THEN Raise(s.exc, None)
          ELSE IF s.value # None /\ (best_score = None \/ s.value > best_score)
          THEN enumerate_loop(self, obs, Tail(seqs), Head(seqs), s.value)
          ELSE enumerate_loop(self, obs, Tail(seqs), best_seq, best_score)

\* keys: self.states.keys(), in the dict's iteration order
enumerate(self, obs, keys) ==
    enumerate_loop(self, obs, product(keys, Len(obs)), NoneSeq, None)

_p_emit(self, state, observation) ==
    IF state \notin DOMAIN self.states THEN None
    ELSE IF observation \notin DOMAIN self.states[state].p_emission THEN Zero
    ELSE self.states[state].p_emission[observation]

_p_transition(self, from_state, to_state) ==
    IF from_state \notin DOMAIN self.states THEN None
    ELSE IF to_state \notin DOMAIN self.states[from_state].p_transition THEN Zero
    ELSE self.states[from_state].p_transition[to_state]

_connected(self, from_state, to_state) ==
    IF from_state \notin DOMAIN self.states THEN FALSE
    ELSE IF to_state \notin DOMAIN self.states[from_state].p_transition THEN FALSE
    ELSE Positive(self.states[from_state].p_transition[to_state])

\* best_of with the comparison of line 277 turned round
best_of_smallest(cands) ==
    IF cands = {} THEN None
    ELSE CHOOSE b \in cands : \A s \in cands : ~(s < b)

\* best over a set of candidate values s (lines 267-279)
best_of(cands) ==
    IF cands = {} THEN None
    ELSE CHOOSE b \in cands : \A s \in cands : ~(s > b)

\* the column for i == 0 (lines 249-259)
first_column(self, sym) ==
    [state \in DOMAIN self.states |->
        LET p_init == self.states[state].p_initial
            p_emit == _p_emit(self, state, sym)
        IN  IF IsZero(p_init) \/ IsZero(p_emit) THEN None
            ELSE Log10(p_init) + Log10(p_emit)]

\* the column for i > 0 (lines 261-279)
next_column(self, prior_probs, sym) ==
    [state \in DOMAIN self.states |->
        LET p_emit == _p_emit(self, state, sym)
        IN  IF IsZero(p_emit) THEN None
            ELSE best_of({prior_probs[prev_state] + Log10(p_emit)
                            + Log10(_p_transition(self, prev_state, state)) :
                          prev_state \in
                            {ps \in DOMAIN prior_probs :
                                /\ prior_probs[ps] # None
                                /\ _connected(self, ps, state)}})]

\* the last column's adjustment (lines 283-289); None + float raises TypeError
last_column_raises(self, probs) ==
    \E s \in DOMAIN self.states :
        s \in self.terminating_states /\ probs[s] = None

last_column(self, probs) ==
    [s \in DOMAIN self.states |->
        IF s \notin self.terminating_states THEN None
        ELSE probs[s] + Log10(self.states[s].p_termination)]

\* cols is the local list trellis; on a raise, value is that list as the
\* exception leaves it.
RECURSIVE trellis_loop(_, _, _, _)
trellis_loop(self, obs, i, cols) ==
    IF i > Len(obs) THEN Return(cols)
    ELSE
      LET probs == IF i = 1 THEN first_column(self, obs[i])
                   ELSE next_column(self, cols[i - 1], obs[i])
      IN  IF i = Len(obs) /\ self.terminal_state
          THEN IF last_column_raises(self, probs)
               THEN Raise("TypeError", cols)
               ELSE trellis_loop(self, obs, i + 1,
                                 Append(cols, last_column(self, probs)))
          ELSE trellis_loop(self, obs, i + 1, Append(cols, probs))

trellis(self, obs) == trellis_loop(self, obs, 1, <<>>)

\* max(probs, key=probs.get) over the keys left in probs, in iteration order:
\* the first key whose value no other exceeds
max_key(keys, probs) ==
    LET i == CHOOSE i \in DOMAIN keys :
                /\ \A j \in DOMAIN keys : probs[keys[j]] <= probs[keys[i]]
                /\ \A j \in 1..(i - 1) : probs[keys[j]] < probs[keys[i]]
    IN  keys[i]

\* admissible without the deletion of lines 328-329
admissible_any_defined(self, keys, probs, next_state) ==
    SelectSeq(keys, LAMBDA state : probs[state] # None)

\* the keys that survive the deletions of lines 325-329
admissible(self, keys, probs, next_state) ==
    SelectSeq(keys, LAMBDA state :
        probs[state] # None /\ _connected(self, state, next_state))

RECURSIVE viterbi_back(_, _, _, _, _, _, _)
viterbi_back(self, cols, i, next_state, state_seq, p_overall, keys) ==
    IF i = 0
    THEN Return([state_seq |-> Reverse(state_seq), p_overall |-> p_overall])
    ELSE
      LET left == admissible(self, keys, cols[i], next_state)
      IN  IF left = <<>> THEN Raise("ValueError", None)
          ELSE LET n == max_key(left, cols[i])
               IN  viterbi_back(self, cols, i - 1, n, Append(state_seq, n),
                                p_overall, keys)

viterbi_path(self, obs, keys) ==
    LET t == trellis(self, obs)
    IN  IF t.status = "raise" THEN Raise(t.exc, None)
        ELSE LET probs == Last(t.value)
                 next_state == max_key(keys, probs)
             IN  viterbi_back(self, t.value, Len(t.value) - 1, next_state,
                              <<next_state>>, probs[next_state], keys)

----------------------------------------------------------------------------
(* train_hmm.  A sample is <<symbols, states>>: sample[1] is Python's       *)
(* sample[0], the list of symbols, and sample[2] is sample[1], the states.  *)

Range(f) == {f[i] : i \in DOMAIN f}

\* d[k] = d.get(k, 0) + 1
dict_inc(d, k) ==
    IF k \in DOMAIN d THEN [d EXCEPT ![k] = @ + 1]
    ELSE [j \in DOMAIN d \cup {k} |-> IF j = k THEN 1 ELSE d[j]]

\* n / (d * 1.0); a zero d raises ZeroDivisionError, which callers model
\* with the _raises predicates below
Div(n, d) == <<n, d>>

\* lines 357-363
train_alphabet(data) == UNION {Range(data[k][1]) : k \in DOMAIN data}
train_state_names(data) == UNION {Range(data[k][2]) : k \in DOMAIN data}

\* lines 370-374: s_dict[s] after the loop over the samples
RECURSIVE train_s_dict(_, _)
train_s_dict(data, s) ==
    IF data = <<>> THEN 0
    ELSE train_s_dict(Tail(data), s) + (IF Head(data)[2][1] = s THEN 1 ELSE 0)

\* lines 380-386: emit and total after the loops, as [emit, total]
RECURSIVE train_emit_sample(_, _, _, _)
train_emit_sample(sample, s, i, acc) ==
    IF i > Len(sample[2]) THEN acc
    ELSE train_emit_sample(sample, s, i + 1,
            IF sample[2][i] = s
            THEN [emit |-> dict_inc(acc.emit, sample[1][i]), total |-> acc.total + 1]
            ELSE acc)

RECURSIVE train_emit(_, _, _)
train_emit(data, s, acc) ==
    IF data = <<>> THEN acc
    ELSE train_emit(Tail(data), s, train_emit_sample(Head(data), s, 1, acc))

\* lines 393-404: tran, total and term after the loops, as [tran, total, term]
RECURSIVE train_tran_sample(_, _, _, _)
train_tran_sample(sample, s, i, acc) ==
    IF i > Len(sample[2]) - 1 THEN acc
    ELSE train_tran_sample(sample, s, i + 1,
            IF sample[2][i] = s
            THEN [acc EXCEPT !.tran = dict_inc(@, sample[2][i + 1]),
                             !.total = @ + 1]
            ELSE acc)

\* train_term_sample without total += 1
train_term_sample_no_total(sample, s, include, acc) ==
    IF include /\ Last(sample[2]) = s
    THEN [acc EXCEPT !.term = @ + 1]
    ELSE acc

\* lines 401-404
train_term_sample(sample, s, include, acc) ==
    IF include /\ Last(sample[2]) = s
    THEN [acc EXCEPT !.total = @ + 1, !.term = @ + 1]
    ELSE acc

RECURSIVE train_tran(_, _, _, _)
train_tran(data, s, include, acc) ==
    IF data = <<>> THEN acc
    ELSE train_tran(Tail(data), s, include,
            train_term_sample(Head(data), s, include,
                train_tran_sample(Head(data), s, 1, acc)))

\* lines 387-388 and 405-406: every entry of the dict divided by total
normalise(d, total) == [k \in DOMAIN d |-> Div(d[k], total)]
normalise_raises(d, total) == DOMAIN d # {} /\ total = 0

\* lines 408-409, after the default of line 367 (state's p_termination=0.0)
train_p_termination(include, term, total) ==
    IF include THEN Div(term, total) ELSE Zero
\* the division of line 409 made whatever include_terminal_state is
train_p_termination_always_divides(include, term, total) == total = 0
train_p_termination_raises(include, term, total) == include /\ total = 0

train_state(data, include, s) ==
    LET e == train_emit(data, s, [emit |-> <<>>, total |-> 0])
        t == train_tran(data, s, include, [tran |-> <<>>, total |-> 0, term |-> 0])
    IN  state_init(s, Div(train_s_dict(data, s), Len(data)),
                   normalise(e.emit, e.total),
                   normalise(t.tran, t.total),
                   train_p_termination(include, t.term, t.total))

train_state_raises(data, include, s) ==
    LET e == train_emit(data, s, [emit |-> <<>>, total |-> 0])
        t == train_tran(data, s, include, [tran |-> <<>>, total |-> 0, term |-> 0])
    IN  \/ Len(data) = 0
        \/ normalise_raises(e.emit, e.total)
        \/ normalise_raises(t.tran, t.total)
        \/ train_p_termination_raises(include, t.term, t.total)

train_hmm(data, include) ==
    LET state_names == train_state_names(data)
    IN  IF \E s \in state_names : train_state_raises(data, include, s)
        THEN Raise("ZeroDivisionError", None)
        ELSE Return(hmm_init(train_alphabet(data),
                             [s \in state_names |-> train_state(data, include, s)]))

----------------------------------------------------------------------------
(* The calls on a constructed model *)

States(name) ==
    {state_init(name, pi, pe, pt, pterm) :
        pi \in PInitial, pe \in Dicts(Alphabet, PEmission),
        pt \in Dicts(StateNames, PTransition), pterm \in PTermination}

Models ==
    {hmm_init(Alphabet, st) :
        st \in {f \in [StateNames -> UNION {States(n) : n \in StateNames}] :
                    \A n \in StateNames : f[n].name = n}}

Observations == UNION {[1..n -> Alphabet] : n \in 1..MaxLen}

NoModel == hmm_init({}, <<>>)

Init ==
    /\ hmm \in Models
    /\ observed \in Observations
    /\ training_data = <<>>
    /\ include_terminal_state = FALSE
    /\ pc = "ready"
    /\ arg = <<>>
    /\ ret = Return(None)

Score ==
    /\ pc = "ready"
    /\ \E seq_state \in [1..Len(observed) -> StateNames] :
          /\ arg' = seq_state
          /\ ret' = score(hmm, seq_state, observed)
    /\ pc' = "score"
    /\ UNCHANGED <<hmm, observed, training_data, include_terminal_state>>

Enumerate ==
    /\ pc = "ready"
    /\ \E keys \in KeyOrders(DOMAIN hmm.states) :
          /\ arg' = keys
          /\ ret' = enumerate(hmm, observed, keys)
    /\ pc' = "enumerate"
    /\ UNCHANGED <<hmm, observed, training_data, include_terminal_state>>

Trellis ==
    /\ pc = "ready"
    /\ arg' = <<>>
    /\ ret' = trellis(hmm, observed)
    /\ pc' = "trellis"
    /\ UNCHANGED <<hmm, observed, training_data, include_terminal_state>>

ViterbiPath ==
    /\ pc = "ready"
    /\ \E keys \in KeyOrders(DOMAIN hmm.states) :
          /\ arg' = keys
          /\ ret' = viterbi_path(hmm, observed, keys)
    /\ pc' = "viterbi_path"
    /\ UNCHANGED <<hmm, observed, training_data, include_terminal_state>>

Next == Score \/ Enumerate \/ Trellis \/ ViterbiPath

Spec == Init /\ [][Next]_vars

----------------------------------------------------------------------------
(* What the claims speak of, written from the model's parameters alone *)

Names == DOMAIN hmm.states
L == Len(observed)
AllSeqs(n) == [1..n -> Names]

ZeroOrAbsent(d, k) == k \notin DOMAIN d \/ IsZero(d[k])

\* every factor of q against the first Len(q) observations is positive
AllFactorsPositive(q) ==
    /\ Positive(hmm.states[q[1]].p_initial)
    /\ \A i \in 1..(Len(q) - 1) : ~ZeroOrAbsent(hmm.states[q[i]].p_transition, q[i + 1])
    /\ \A i \in 1..Len(q) : ~ZeroOrAbsent(hmm.states[q[i]].p_emission, observed[i])

RECURSIVE TransitionSum(_, _)
TransitionSum(q, i) ==
    IF i >= Len(q) THEN 0
    ELSE Log10(hmm.states[q[i]].p_transition[q[i + 1]]) + TransitionSum(q, i + 1)

RECURSIVE EmissionSum(_, _)
EmissionSum(q, i) ==
    IF i > Len(q) THEN 0
    ELSE Log10(hmm.states[q[i]].p_emission[observed[i]]) + EmissionSum(q, i + 1)

\* the sum of the log10 of the initial, transition and emission factors of q
FactorSum(q) ==
    Log10(hmm.states[q[1]].p_initial) + TransitionSum(q, 1) + EmissionSum(q, 1)

Maximum(S) == CHOOSE m \in S : \A x \in S : x <= m

\* the state sequences that score accepts, and the best of their scores
ValidSeqs ==
    {q \in AllSeqs(L) :
        LET r == score(hmm, q, observed)
        IN  r.status = "return" /\ r.value # None}
MaxScore == Maximum({score(hmm, q, observed).value : q \in ValidSeqs})

\* the best value of a path of i states that ends in s, None if there is none
BestPrefix(i, s) ==
    LET Q == {q \in AllSeqs(i) : q[i] = s /\ AllFactorsPositive(q)}
    IN  IF Q = {} THEN None ELSE Maximum({FactorSum(q) : q \in Q})

LastColumnUndefined ==
    LET t == trellis(hmm, observed)
    IN  t.status = "return" /\ \A s \in Names : Last(t.value)[s] = None

LastColumnHasDefined ==
    LET t == trellis(hmm, observed)
    IN  t.status = "return" /\ \E s \in Names : Last(t.value)[s] # None

\* hmm with every p_termination set to 0.0
WithoutTermination ==
    hmm_init(hmm.alphabet,
             [n \in Names |-> [hmm.states[n] EXCEPT !.p_termination = Zero]])

\* the last column before the adjustment for the terminal state
OrdinaryLastColumn ==
    IF L = 1 THEN first_column(hmm, observed[1])
    ELSE next_column(hmm, ret.value[L - 1], observed[L])

----------------------------------------------------------------------------
(* Claims about score, enumerate, trellis and viterbi_path (Spec) *)

\* C1: when some state sequence is valid, the state sequence that
\* viterbi_path returns has a score equal to the maximum of score over all
\* state sequences of that length.
C1_ViterbiPathIsOptimal ==
    (pc = "viterbi_path" /\ ValidSeqs # {} /\ ret.status = "return")
        => LET r == score(hmm, ret.value.state_seq, observed)
           IN  r.status = "return" /\ r.value = MaxScore

\* C2: when some state sequence is valid, the float that viterbi_path returns
\* as its second value equals the maximum of score over all state sequences,
\* with or without an implicit terminal state.
C2_ViterbiValueIsBestScore ==
    (pc = "viterbi_path" /\ ValidSeqs # {} /\ ret.status = "return")
        => ret.value.p_overall = MaxScore

\* C3: score returns None, without raising, whenever the initial probability
\* of the first state, a transition between consecutive states or an emission
\* of a state for its symbol is 0.0 or absent.
C3_ZeroFactorGivesNone ==
    (pc = "score" /\ ~AllFactorsPositive(arg)) => ret = Return(None)

\* C4: when the last trellis column has no defined cell, viterbi_path neither
\* raises nor returns a state sequence with an undefined score: it returns an
\* empty result.
C4_NoPathIsDefinedFailure ==
    (pc = "viterbi_path" /\ LastColumnUndefined)
        => ret.status = "return" /\ ret.value.state_seq = <<>>

\* C5: in a model with an implicit terminal state, score returns None for a
\* state sequence whose last state is not terminating, and for one whose last
\* state is terminating it returns what the same sequence gets with every
\* p_termination set to 0.0: the sum of the log10 factors when all are
\* positive.
C5_TerminationOnlyGates ==
    (pc = "score" /\ hmm.terminal_state)
        => IF Last(arg) \notin hmm.terminating_states
           THEN ret = Return(None)
           ELSE /\ ret = score(WithoutTermination, arg, observed)
                /\ AllFactorsPositive(arg) => ret = Return(FactorSum(arg))

C5_Witness ==
    /\ pc = "score"
    /\ hmm.terminal_state
    /\ L >= 2
    /\ Last(arg) \in hmm.terminating_states
    /\ hmm.terminating_states # Names
    /\ ret.status = "return"
    /\ ret.value # None
    /\ ret.value < 0

\* C8: in a model with an implicit terminal state, trellis completes, and in
\* its last column the cell of every non-terminating state is None and the
\* cell of every terminating state is its ordinary value plus
\* log10(p_termination), None when the ordinary value is None.
C8_LastColumnAdjusted ==
    (pc = "trellis" /\ hmm.terminal_state)
        => /\ ret.status = "return"
           /\ Len(ret.value) = L
           /\ \A s \in Names :
                 Last(ret.value)[s] =
                    IF s \notin hmm.terminating_states THEN None
                    ELSE IF OrdinaryLastColumn[s] = None THEN None
                    ELSE OrdinaryLastColumn[s]
                            + Log10(hmm.states[s].p_termination)

\* C9: when the last trellis column has a defined cell, viterbi_path does not
\* stop at a backward step: it returns a path of the length of the
\* observations that starts in a state with p_initial > 0 and has a positive
\* transition between consecutive states and a positive emission at every
\* position.
C9_BacktrackingCompletes ==
    (pc = "viterbi_path" /\ LastColumnHasDefined)
        => /\ ret.status = "return"
           /\ Len(ret.value.state_seq) = L
           /\ AllFactorsPositive(ret.value.state_seq)

C9_Witness ==
    /\ pc = "viterbi_path"
    /\ L >= 3
    /\ LastColumnHasDefined
    /\ ret.status = "return"
    /\ \E i \in 1..(L - 1) : \E s \in Names :
          /\ trellis(hmm, observed).value[i][s] # None
          /\ ~_connected(hmm, s, ret.value.state_seq[i + 1])
          /\ \A t \in Names \ {s} :
                trellis(hmm, observed).value[i][t]
                    < trellis(hmm, observed).value[i][s]

\* C10: every trellis column that is not the adjusted last column of a model
\* with a terminal state holds, for every state s, the maximum over the state
\* sequences that end in s and have only positive factors of the sum of the
\* log10 of those factors, and None when there is no such sequence; a 0.0
\* entry and an absent entry count alike.
C10_TrellisInvariant ==
    pc = "trellis"
        => /\ Len(ret.value) = IF ret.status = "return" THEN L ELSE L - 1
           /\ \A i \in 1..Len(ret.value) :
                 (i < L \/ ~hmm.terminal_state)
                    => \A s \in Names : ret.value[i][s] = BestPrefix(i, s)

C10_Witness ==
    /\ pc = "trellis"
    /\ L >= 3
    /\ \E s \in Names :
          /\ ret.value[2][s] # None
          /\ \E q1, q2 \in {q \in AllSeqs(2) : q[2] = s /\ AllFactorsPositive(q)} :
                FactorSum(q1) < FactorSum(q2)
    /\ \E s \in Names : ret.value[2][s] = None
    /\ \E a, b \in Names :
          b \in DOMAIN hmm.states[a].p_transition
            /\ IsZero(hmm.states[a].p_transition[b])

----------------------------------------------------------------------------
(* train_hmm on labelled training data *)

Samples ==
    UNION {[1..n -> TrainSymbols] \X [1..n -> TrainStates] : n \in 1..MaxSampleLen}

TrainingData == UNION {[1..k -> Samples] : k \in 1..MaxSamples}

InitTrain ==
    /\ hmm = NoModel
    /\ observed = <<>>
    /\ training_data \in TrainingData
    /\ include_terminal_state \in BOOLEAN
    /\ pc = "ready"
    /\ arg = <<>>
    /\ ret = Return(None)

Train ==
    /\ pc = "ready"
    /\ ret' = train_hmm(training_data, include_terminal_state)
    /\ hmm' = IF ret'.status = "return" THEN ret'.value ELSE hmm
    /\ pc' = "train_hmm"
    /\ UNCHANGED <<observed, training_data, include_terminal_state, arg>>

NextTrain == Train

SpecTrain == InitTrain /\ [][NextTrain]_vars

----------------------------------------------------------------------------
(* What the claims about train_hmm speak of, counted from training_data *)

Labels(k) == training_data[k][2]
TrainedNames == UNION {Range(Labels(k)) : k \in DOMAIN training_data}

NonFinalPositions(s) ==
    {<<k, i>> \in (DOMAIN training_data) \X (1..MaxSampleLen) :
        i < Len(Labels(k)) /\ Labels(k)[i] = s}
NonFinalCount(s) == Cardinality(NonFinalPositions(s))
FinalCount(s) ==
    Cardinality({k \in DOMAIN training_data : Last(Labels(k)) = s})
PairCount(s, t) ==
    Cardinality({p \in NonFinalPositions(s) : Labels(p[1])[p[2] + 1] = t})
OnlyFinal(s) == s \in TrainedNames /\ NonFinalCount(s) = 0

RECURSIVE NumeratorSum(_, _)
NumeratorSum(d, K) ==
    IF K = {} THEN 0
    ELSE LET k == CHOOSE k \in K : TRUE
         IN  d[k][1] + NumeratorSum(d, K \ {k})

----------------------------------------------------------------------------
(* Claims about train_hmm (SpecTrain) *)

\* C6: when some label occurs only in the final position of samples,
\* train_hmm still returns a model, without a division by zero, and in it
\* that state's p_transition is the empty mapping.
C6_DegenerateTrainingReturns ==
    (pc = "train_hmm" /\ \E s \in TrainedNames : OnlyFinal(s))
        => /\ ret.status = "return"
           /\ \A s \in TrainedNames :
                 OnlyFinal(s) => DOMAIN ret.value.states[s].p_transition = {}

C6_Witness ==
    /\ pc = "train_hmm"
    /\ ~include_terminal_state
    /\ ret.status = "return"
    /\ \E s, t \in TrainedNames : OnlyFinal(s) /\ ~OnlyFinal(t)

\* C7: with include_terminal_state, p_termination of every state s is the
\* number of samples that end in s over D, and p_transition[s][s2] is the
\* number of adjacent pairs s -> s2 over the same D, where D is the number of
\* non-final positions labelled s plus the number of samples that end in s,
\* so that the counts add up to D; without it, p_termination is 0.0 and D is
\* the number of non-final positions labelled s.
C7_TransitionDenominator ==
    (pc = "train_hmm" /\ ret.status = "return")
        => \A s \in TrainedNames :
              LET st == ret.value.states[s]
                  D == NonFinalCount(s)
                         + (IF include_terminal_state THEN FinalCount(s) ELSE 0)
              IN  /\ DOMAIN st.p_transition
                        = {t \in TrainedNames : PairCount(s, t) > 0}
                  /\ \A t \in DOMAIN st.p_transition :
                        st.p_transition[t] = <<PairCount(s, t), D>>
                  /\ IF include_terminal_state
                     THEN /\ st.p_termination = <<FinalCount(s), D>>
                          /\ D > 0
                          /\ NumeratorSum(st.p_transition, DOMAIN st.p_transition)
                                + st.p_termination[1] = D
                     ELSE IsZero(st.p_termination)

C7_Witness ==
    /\ pc = "train_hmm"
    /\ include_terminal_state
    /\ ret.status = "return"
    /\ \E s \in TrainedNames :
          /\ Cardinality(DOMAIN ret.value.states[s].p_transition) >= 2
          /\ ret.value.states[s].p_termination[1] >= 1

====
